---- MODULE Spec2Model ----
(***************************************************************************)
(* Bio-inspired fault diagnosis: fault-aware evaluation of the reference   *)
(* circuit, gate sensitivity analysis and the sequential Bayesian update   *)
(* over stuck-at fault hypotheses.                                         *)
(*                                                                         *)
(* Probabilities are exact rationals <<numerator, denominator>> in lowest  *)
(* terms; the program computes the same quantities in binary floating      *)
(* point.  Python dicts are functions, None is the string "None".          *)
(***************************************************************************)
EXTENDS Integers, Sequences, FiniteSets, TLC

VARIABLES
    \* bayesian_diagnosis.py: one call of bayesian_update
    prior,          \* the caller's fault_probs dict (never written)
    observations,   \* the observations argument
    fault_probs,    \* the local copy made at line 32
    idx,            \* number of observations fully processed
    err,            \* "None" or the name of the exception raised
    pc,             \* "idle" | "loop" | "done" | "raised"
    \* fault_modeling.py: simulate, and bayesian_diagnosis.py: simulate_logic
    sim_inputs,     \* simulate's inputs argument
    fault,          \* <<>> (fault_node = None) or <<fault_node, fault_value>>
    log,            \* the log simulate returned ({} before the call)
    logic_inputs,   \* simulate_logic's inputs argument
    fault_states,   \* simulate_logic's fault_states argument
    logic_out,      \* the bit simulate_logic returned
    returned,       \* which of the two calls have returned
    \* fault_modeling.py: compare_logs
    healthy_log, faulty_log, diffs, cmp_err, cmp_pc,
    \* sensitivity_analysis.py: gate_sensitivity_analysis
    all_inputs, gate_pos, gate_sensitivity, sens_err, sens_pc

diagVars == <<prior, observations, fault_probs, idx, err, pc>>
simVars  == <<sim_inputs, fault, log, logic_inputs, fault_states, logic_out, returned>>
cmpVars  == <<healthy_log, faulty_log, diffs, cmp_err, cmp_pc>>
sensVars == <<all_inputs, gate_pos, gate_sensitivity, sens_err, sens_pc>>
vars     == <<diagVars, simVars, cmpVars, sensVars>>

None == "None"
Bit  == {0, 1}

\* Bounds of the model.
MaxObs    == 2      \* longest observation list given to bayesian_update
MaxInputs == 4      \* longest all_inputs list given to gate_sensitivity_analysis

(***************************************************************************)
(* Exact arithmetic                                                        *)
(***************************************************************************)
Abs(n) == IF n < 0 THEN -n ELSE n

RECURSIVE GCD(_, _)
GCD(a, b) == IF b = 0 THEN a ELSE GCD(b, a % b)

\* n/d in lowest terms with a positive denominator (d # 0).
Rat(n, d) ==
    LET g == GCD(Abs(n), Abs(d))
        s == IF d < 0 THEN -1 ELSE 1
    IN  <<(s * n) \div g, (s * d) \div g>>

\* Products and sums cancel common factors before multiplying, which keeps
\* the intermediate integers small.
RMul(p, q) ==
    LET g1 == GCD(Abs(p[1]), q[2])
        g2 == GCD(Abs(q[1]), p[2])
    IN  Rat((p[1] \div g1) * (q[1] \div g2), (p[2] \div g2) * (q[2] \div g1))
RAdd(p, q) ==
    LET g == GCD(p[2], q[2])
    IN  Rat(p[1] * (q[2] \div g) + q[1] * (p[2] \div g), (p[2] \div g) * q[2])
\* p / q for q # 0
RDiv(p, q) == RMul(p, IF q[1] < 0 THEN <<-q[2], -q[1]>> ELSE <<q[2], q[1]>>)
RLeq(p, q) == p[1] * q[2] <= q[1] * p[2]
RZero == <<0, 1>>
ROne  == <<1, 1>>

\* The empty dict {} and a one-entry dict.
EmptyDict == [k \in {} |-> 0]

\* Python's dict[key] = value (inserts or overwrites).
DictSet(d, k, v) == [x \in DOMAIN d \cup {k} |-> IF x = k THEN v ELSE d[x]]

(***************************************************************************)
(* fault_modeling.py: gates, circuit, evaluate, simulate                   *)
(***************************************************************************)
\* a & b, a | b and ~a & 1 on the bits 0/1.
AND(a, b) == IF a = 1 /\ b = 1 THEN 1 ELSE 0
OR(a, b)  == IF a = 1 \/ b = 1 THEN 1 ELSE 0
NOT(a)    == 1 - (a % 2)

Nodes == {"A", "B", "N1", "N2", "N3"}

circuit ==
    [n \in Nodes |->
        CASE n = "A"  -> [func |-> "INPUT", inputs |-> <<>>]
          [] n = "B"  -> [func |-> "INPUT", inputs |-> <<>>]
          [] n = "N1" -> [func |-> "AND",   inputs |-> <<"A", "B">>]
          [] n = "N2" -> [func |-> "NOT",   inputs |-> <<"A">>]
          [] n = "N3" -> [func |-> "OR",    inputs |-> <<"N1", "N2">>]]

\* func(*input_vals).  An INPUT node never gets here: simulate puts A and B
\* into values, so evaluate returns them at line 45.
Apply(func, input_vals) ==
    CASE func = "AND" -> AND(input_vals[1], input_vals[2])
      [] func = "OR"  -> OR(input_vals[1], input_vals[2])
      [] func = "NOT" -> NOT(input_vals[1])

\* The override of lines 55-56, mutated: the stuck bit is never injected.
InjectNever(node, result, fn, fv) == result

\* if node == fault_node: result = fault_value
Inject(node, result, fn, fv) == IF node = fn THEN fv ELSE result

RECURSIVE evaluate(_, _, _, _, _)
RECURSIVE EvalInputs(_, _, _, _, _, _)

\* [evaluate(inp, values, ...) for inp in inputs], left to right; values and
\* log are the shared mutable dicts, threaded through the calls.
EvalInputs(inputs, i, st, fn, fv, acc) ==
    IF i > Len(inputs) THEN [input_vals |-> acc, values |-> st.values, log |-> st.log]
    ELSE LET r == evaluate(inputs[i], st.values, fn, fv, st.log)
         IN  EvalInputs(inputs, i + 1, r, fn, fv, Append(acc, r.result))

\* evaluate(node, values, fault_node, fault_value, log): the returned bit
\* together with the dicts as the call leaves them.
evaluate(node, values, fn, fv, lg) ==
    IF node \in DOMAIN values
    THEN [result |-> values[node], values |-> values, log |-> lg]
    ELSE LET c == circuit[node]
             e == EvalInputs(c.inputs, 1, [values |-> values, log |-> lg], fn, fv, <<>>)
             result == Inject(node, Apply(c.func, e.input_vals), fn, fv)
         IN  [result |-> result,
              values |-> DictSet(e.values, node, result),
              log    |-> DictSet(e.log, node, result)]

\* simulate(inputs, fault_node, fault_value): the returned log.
simulate(inputs, fn, fv) ==
    LET values == [n \in {"A", "B"} |-> inputs[n]]
        lg     == [n \in {"A", "B"} |-> inputs[n]]
    IN  evaluate("N3", values, fn, fv, lg).log

(***************************************************************************)
(* bayesian_diagnosis.py: simulate_logic                                   *)
(***************************************************************************)
\* Python's `a and b`, `a or b` on ints.
PyAnd(a, b) == IF a = 0 THEN a ELSE b
PyOr(a, b)  == IF a # 0 THEN a ELSE b

\* simulate_logic(inputs, fault_states); gate names are character sequences.
simulate_logic(inputs, fs) ==
    LET A == inputs["A"]
        B == inputs["B"]
        X == IF <<"X">> \in DOMAIN fs THEN fs[<<"X">>] ELSE PyAnd(A, B)
        Y == IF <<"Y">> \in DOMAIN fs THEN fs[<<"Y">>] ELSE NOT(A)
        Z == PyOr(X, Y)
    IN  Z

InputAssignments == [{"A", "B"} -> Bit]

(***************************************************************************)
(* Idle values of the four groups of variables                             *)
(***************************************************************************)
ZeroInputs == [n \in {"A", "B"} |-> 0]

DiagIdle ==
    /\ prior = EmptyDict /\ observations = <<>> /\ fault_probs = EmptyDict
    /\ idx = 0 /\ err = None /\ pc = "idle"
SimIdle ==
    /\ sim_inputs = ZeroInputs /\ fault = <<>> /\ log = EmptyDict
    /\ logic_inputs = ZeroInputs /\ fault_states = EmptyDict /\ logic_out = 0
    /\ returned = {}
CmpIdle ==
    /\ healthy_log = EmptyDict /\ faulty_log = EmptyDict /\ diffs = EmptyDict
    /\ cmp_err = None /\ cmp_pc = "idle"
SensIdle ==
    /\ all_inputs = <<>> /\ gate_pos = 0 /\ gate_sensitivity = EmptyDict
    /\ sens_err = None /\ sens_pc = "idle"

(***************************************************************************)
(* Simulation: one call of simulate and one call of simulate_logic          *)
(***************************************************************************)
Gates == {"N1", "N2", "N3"}

\* FaultSpec: absent, or (gate, stuck bit).
FaultSpecs == {<<>>} \cup (Gates \X Bit)

FaultNode(f)  == IF f = <<>> THEN None ELSE f[1]
FaultValue(f) == IF f = <<>> THEN None ELSE f[2]

GateNames == {<<"X">>, <<"Y">>, <<"Z">>}

\* {} and the one-entry dicts {gate: stuck_val} that bayesian_update builds.
FaultStates == {EmptyDict} \cup {[k \in {g} |-> b] : g \in GateNames, b \in Bit}

InitSim ==
    /\ sim_inputs \in InputAssignments
    /\ fault \in FaultSpecs
    /\ log = EmptyDict
    /\ logic_inputs \in InputAssignments
    /\ fault_states \in FaultStates
    /\ logic_out = 0
    /\ returned = {}
    /\ DiagIdle /\ CmpIdle /\ SensIdle

Simulate ==
    /\ "simulate" \notin returned
    /\ log' = simulate(sim_inputs, FaultNode(fault), FaultValue(fault))
    /\ returned' = returned \cup {"simulate"}
    /\ UNCHANGED <<sim_inputs, fault, logic_inputs, fault_states, logic_out>>
    /\ UNCHANGED <<diagVars, cmpVars, sensVars>>

SimulateLogic ==
    /\ "simulate_logic" \notin returned
    /\ logic_out' = simulate_logic(logic_inputs, fault_states)
    /\ returned' = returned \cup {"simulate_logic"}
    /\ UNCHANGED <<sim_inputs, fault, log, logic_inputs, fault_states>>
    /\ UNCHANGED <<diagVars, cmpVars, sensVars>>

NextSim == Simulate \/ SimulateLogic

SpecSim == InitSim /\ [][NextSim]_vars

\* The healthy truth table of the reference circuit, for (A, B).
HealthyZ(a, b) ==
    CASE a = 0 /\ b = 0 -> 1
      [] a = 0 /\ b = 1 -> 1
      [] a = 1 /\ b = 0 -> 0
      [] a = 1 /\ b = 1 -> 1

\* What gate g computes from the logged values of its fan-in.
FromFanIn(g, lg) ==
    CASE g = "N1" -> lg["A"] * lg["B"]
      [] g = "N2" -> 1 - lg["A"]
      [] g = "N3" -> IF lg["N1"] + lg["N2"] >= 1 THEN 1 ELSE 0

\* The gates whose value depends on gate n: n itself and its transitive
\* fan-out (none for fault_node = None).
Downstream(n) ==
    CASE n = "N1" -> {"N1", "N3"}
      [] n = "N2" -> {"N2", "N3"}
      [] n = "N3" -> {"N3"}
      [] OTHER    -> {}

\* The value of gate g in a healthy run on (a, b).
HealthyValue(g, a, b) ==
    CASE g = "N1" -> a * b
      [] g = "N2" -> 1 - a
      [] g = "N3" -> HealthyZ(a, b)

\* C3: in the log simulate returns, the inputs keep their assigned bits, the
\* faulted gate holds the stuck bit and every other gate holds its gate
\* function of the logged values of its fan-in; a gate not downstream of the
\* fault keeps its healthy value; the healthy output follows the truth table 1, 1, 0, 1 and N1 stuck-at-0 on (1,1) gives output 0.
C3_FaultAwareEvaluation ==
    "simulate" \in returned =>
        /\ DOMAIN log = Nodes
        /\ log["A"] = sim_inputs["A"] /\ log["B"] = sim_inputs["B"]
        /\ \A g \in Gates :
              log[g] = IF g = FaultNode(fault) THEN FaultValue(fault)
                       ELSE FromFanIn(g, log)
        /\ \A g \in Gates \ Downstream(FaultNode(fault)) :
              log[g] = HealthyValue(g, sim_inputs["A"], sim_inputs["B"])
        /\ fault = <<>> => log["N3"] = HealthyZ(sim_inputs["A"], sim_inputs["B"])
        /\ (fault = <<"N1", 0>> /\ sim_inputs["A"] = 1 /\ sim_inputs["B"] = 1)
              => log["N3"] = 0

\* C3 witness: N1 stuck-at-0 on (1,1) has been simulated; the stuck bit has
\* propagated to the output and N2 kept its healthy value.
C3_Witness ==
    /\ "simulate" \in returned
    /\ fault = <<"N1", 0>> /\ sim_inputs["A"] = 1 /\ sim_inputs["B"] = 1
    /\ log["N1"] = 0 /\ log["N2"] = 0 /\ log["N3"] = 0

\* The Evaluator node that a diagnoser gate name stands for.
GateNode(name) ==
    CASE name = <<"X">> -> "N1"
      [] name = <<"Y">> -> "N2"
      [] name = <<"Z">> -> "N3"

\* fault_states names the same fault as the FaultSpec f.
SameFault(fs, f) ==
    IF f = <<>> THEN fs = EmptyDict
    ELSE \E g \in DOMAIN fs : GateNode(g) = f[1] /\ fs[g] = f[2]

\* C9: on the same inputs and the same fault hypothesis (X = N1, Y = N2,
\* Z = N3, or no fault), the bit simulate_logic returns equals the value of
\* the output node N3 in the log simulate returns.
C9_OracleAgreesWithEvaluator ==
    (returned = {"simulate", "simulate_logic"}
        /\ logic_inputs = sim_inputs /\ SameFault(fault_states, fault))
    => logic_out = log["N3"]

(***************************************************************************)
(* fault_modeling.py: compare_logs                                         *)
(***************************************************************************)
\* The order in which a dict built by simulate lists its keys.
NodeOrder == <<"A", "B", "N1", "N2", "N3">>

\* list(d): the keys of a log, in NodeOrder.
Keys(d) == SelectSeq(NodeOrder, LAMBDA n : n \in DOMAIN d)

RECURSIVE CompareLoop(_, _, _, _, _)
\* for node in healthy_log: ... (lines 91-93); faulty_log[node] raises
\* KeyError for a node faulty_log lacks, .get(node, None) gives None.
CompareLoop(keys, i, h, f, d) ==
    IF i > Len(keys) THEN [err |-> None, diffs |-> d]
    ELSE LET node == keys[i]
             differs == IF node \in DOMAIN f THEN h[node] # f[node] ELSE TRUE
         IN  IF ~differs THEN CompareLoop(keys, i + 1, h, f, d)
             ELSE IF node \notin DOMAIN f THEN [err |-> "KeyError", diffs |-> d]
             ELSE CompareLoop(keys, i + 1, h, f, DictSet(d, node, <<h[node], f[node]>>))

\* compare_logs(healthy_log, faulty_log)
compare_logs(h, f) == CompareLoop(Keys(h), 1, h, f, EmptyDict)

\* Every dict from some of the nodes to bits.
Logs == UNION {[S -> Bit] : S \in SUBSET Nodes}

InitCmp ==
    /\ healthy_log \in Logs
    /\ faulty_log \in Logs
    /\ diffs = EmptyDict
    /\ cmp_err = None
    /\ cmp_pc = "start"
    /\ DiagIdle /\ SimIdle /\ SensIdle

CompareLogs ==
    /\ cmp_pc = "start"
    /\ LET r == compare_logs(healthy_log, faulty_log)
       IN  /\ cmp_err' = r.err
           /\ diffs' = IF r.err = None THEN r.diffs ELSE diffs
           /\ cmp_pc' = IF r.err = None THEN "done" ELSE "raised"
    /\ UNCHANGED <<healthy_log, faulty_log>>
    /\ UNCHANGED <<diagVars, simVars, sensVars>>

NextCmp == CompareLogs

SpecCmp == InitCmp /\ [][NextCmp]_vars

\* The nodes that differ between two logs: present in both with different
\* values, or present in exactly one of them.
DifferingNodes(h, f) ==
    {n \in DOMAIN h \cup DOMAIN f :
        IF n \in DOMAIN h /\ n \in DOMAIN f THEN h[n] # f[n] ELSE TRUE}

\* C8: compare_logs completes without an error for every pair of logs, and
\* returns exactly the differing nodes (a node absent from one log counts as
\* differing), each node of both logs paired with (healthy value, faulty value).
C8_CompareLogsTotal ==
    cmp_pc # "start" =>
        /\ cmp_err = None
        /\ DOMAIN diffs = DifferingNodes(healthy_log, faulty_log)
        /\ \A n \in DOMAIN diffs \cap DOMAIN healthy_log \cap DOMAIN faulty_log :
              diffs[n] = <<healthy_log[n], faulty_log[n]>>

(***************************************************************************)
(* bayesian_diagnosis.py: bayesian_update                                  *)
(***************************************************************************)
\* Fault types are strings, modelled as character sequences: "X_0" is
\* <<"X", "_", "0">>.
FaultTypes == {<<g, "_", b>> : g \in {"X", "Y", "Z"}, b \in {"0", "1"}}

RECURSIVE SplitFrom(_, _, _, _, _)
SplitFrom(s, sep, i, cur, acc) ==
    IF i > Len(s) THEN Append(acc, cur)
    ELSE IF s[i] = sep THEN SplitFrom(s, sep, i + 1, <<>>, Append(acc, cur))
    ELSE SplitFrom(s, sep, i + 1, Append(cur, s[i]), acc)

\* str.split(sep)
Split(s, sep) == SplitFrom(s, sep, 1, <<>>, <<>>)

DigitValue(c) ==
    CASE c = "0" -> 0 [] c = "1" -> 1 [] c = "2" -> 2 [] c = "3" -> 3 [] c = "4" -> 4
      [] c = "5" -> 5 [] c = "6" -> 6 [] c = "7" -> 7 [] c = "8" -> 8 [] c = "9" -> 9

RECURSIVE IntFrom(_, _, _)
IntFrom(s, i, acc) ==
    IF i > Len(s) THEN acc ELSE IntFrom(s, i + 1, 10 * acc + DigitValue(s[i]))

\* int(s) for a string of decimal digits
Int_(s) == IntFrom(s, 1, 0)

\* The weight of line 49, mutated: a mismatching hypothesis is eliminated.
LikelihoodEliminating(faulty_output, Z_obs) ==
    IF faulty_output = Z_obs THEN ROne ELSE RZero

\* The weight of line 49, mutated: 0.1 instead of 0.01.
LikelihoodTenth(faulty_output, Z_obs) ==
    IF faulty_output = Z_obs THEN ROne ELSE <<1, 10>>

\* 1.0 if faulty_output == Z_obs else 0.01
Likelihood(faulty_output, Z_obs) ==
    IF faulty_output = Z_obs THEN ROne ELSE <<1, 100>>

\* The likelihoods dict of lines 40-49.
Likelihoods(fp, obs) ==
    [fault_type \in DOMAIN fp |->
        LET parts     == Split(fault_type, "_")
            gate      == parts[1]
            stuck_val == Int_(parts[2])
            inputs    == [n \in {"A", "B"} |-> IF n = "A" THEN obs.inputs[1]
                                                ELSE obs.inputs[2]]
            faulty_output == simulate_logic(inputs, [k \in {gate} |-> stuck_val])
        IN  Likelihood(faulty_output, obs.Z_observed)]

RECURSIVE SumValues(_, _)
SumValues(d, keys) ==
    IF keys = {} THEN RZero
    ELSE LET k == CHOOSE x \in keys : TRUE
         IN  RAdd(d[k], SumValues(d, keys \ {k}))

\* sum(d.values())
Sum(d) == SumValues(d, DOMAIN d)

\* One pass of the loop body with its statements out of order: the
\* distribution is normalized first and multiplied by the likelihoods after.
UpdateNormalizeFirst(fp, obs) ==
    LET lik   == Likelihoods(fp, obs)
        total == Sum(fp)
    IN  IF DOMAIN fp = {} THEN [err |-> None, fault_probs |-> fp]
        ELSE IF total = RZero THEN [err |-> "ZeroDivisionError", fault_probs |-> fp]
        ELSE [err |-> None,
              fault_probs |-> [k \in DOMAIN fp |-> RMul(RDiv(fp[k], total), lik[k])]]

\* One pass of the loop body (lines 35-58): the dict as the pass leaves it
\* and the exception it raises, if any.  With total = 0 the first division
\* raises, after every entry has been multiplied; an empty dict is never
\* divided.
Update(fp, obs) ==
    LET lik        == Likelihoods(fp, obs)
        multiplied == [k \in DOMAIN fp |-> RMul(fp[k], lik[k])]
        total      == Sum(multiplied)
    IN  IF DOMAIN fp = {} THEN [err |-> None, fault_probs |-> multiplied]
        ELSE IF total = RZero
             THEN [err |-> "ZeroDivisionError", fault_probs |-> multiplied]
        ELSE [err |-> None,
              fault_probs |-> [k \in DOMAIN fp |-> RDiv(multiplied[k], total)]]

RECURSIVE UpdateAll(_, _, _)
UpdateAll(fp, obsSeq, i) ==
    IF i > Len(obsSeq) THEN [err |-> None, fault_probs |-> fp]
    ELSE LET r == Update(fp, obsSeq[i])
         IN  IF r.err # None THEN r ELSE UpdateAll(r.fault_probs, obsSeq, i + 1)

\* bayesian_update(fault_probs, observations) as a whole: the returned dict,
\* or the exception that ends the call.
bayesian_update(fp, obsSeq) == UpdateAll(fp, obsSeq, 1)

X_0 == <<"X", "_", "0">>
X_1 == <<"X", "_", "1">>
Y_0 == <<"Y", "_", "0">>
Y_1 == <<"Y", "_", "1">>
Z_0 == <<"Z", "_", "0">>
Z_1 == <<"Z", "_", "1">>

\* The hypothesis sets and prior values the caller may pass: the demo's four
\* hypotheses, a set with output-gate hypotheses, and the empty set; values
\* 0, 0.005 (the demo's) and 0.25.
HypothesisSets == {{}, {X_0, X_1, Y_0, Y_1}, {X_0, Z_0, Z_1}}
PriorValues == {RZero, <<1, 200>>, <<1, 4>>}
Priors == UNION {[H -> PriorValues] : H \in HypothesisSets}

Observations == [inputs : Bit \X Bit, Z_observed : Bit]

SeqsUpTo(S, n) == UNION {[1..k -> S] : k \in 0..n}

InitDiag ==
    /\ prior \in Priors
    /\ observations \in SeqsUpTo(Observations, MaxObs)
    /\ fault_probs = EmptyDict
    /\ idx = 0
    /\ err = None
    /\ pc = "start"
    /\ SimIdle /\ CmpIdle /\ SensIdle

\* The entry of bayesian_update with a validation the code does not have:
\* an empty prior or one that does not sum to 1 raises ConfigError.
BayesianCallValidating ==
    /\ pc = "start"
    /\ IF DOMAIN prior # {} /\ Sum(prior) = ROne
       THEN fault_probs' = prior /\ pc' = "loop" /\ err' = err
       ELSE fault_probs' = fault_probs /\ pc' = "raised" /\ err' = "ConfigError"
    /\ UNCHANGED <<prior, observations, idx>>
    /\ UNCHANGED <<simVars, cmpVars, sensVars>>

\* Entry of bayesian_update: fault_probs = fault_probs.copy() (line 32).
BayesianCall ==
    /\ pc = "start"
    /\ fault_probs' = prior
    /\ pc' = "loop"
    /\ UNCHANGED <<prior, observations, idx, err>>
    /\ UNCHANGED <<simVars, cmpVars, sensVars>>

\* One iteration of `for idx, obs in enumerate(observations)`.
ProcessObservation ==
    /\ pc = "loop"
    /\ idx < Len(observations)
    /\ LET r == Update(fault_probs, observations[idx + 1])
       IN  /\ fault_probs' = r.fault_probs
           /\ err' = r.err
           /\ pc' = IF r.err = None THEN "loop" ELSE "raised"
           /\ idx' = IF r.err = None THEN idx + 1 ELSE idx
    /\ UNCHANGED <<prior, observations>>
    /\ UNCHANGED <<simVars, cmpVars, sensVars>>

\* return fault_probs (line 60)
BayesianReturn ==
    /\ pc = "loop"
    /\ idx = Len(observations)
    /\ pc' = "done"
    /\ UNCHANGED <<prior, observations, fault_probs, idx, err>>
    /\ UNCHANGED <<simVars, cmpVars, sensVars>>

NextDiag == BayesianCall \/ ProcessObservation \/ BayesianReturn

SpecDiag == InitDiag /\ [][NextDiag]_vars

AllPositive(p) == \A h \in DOMAIN p : p[h][1] > 0

DemoPrior == [h \in {X_0, X_1, Y_0, Y_1} |-> <<1, 200>>]
DemoObservations ==
    << [inputs |-> <<1, 1>>, Z_observed |-> 0],
       [inputs |-> <<0, 0>>, Z_observed |-> 1] >>

C2_OrderIndependence ==
    (pc \in {"done", "raised"} /\ Len(observations) = 2) =>
        LET swapped == bayesian_update(prior, <<observations[2], observations[1]>>)
        IN  /\ swapped.err = err
            /\ err = None => swapped.fault_probs = fault_probs

\* C2 witness: two observations that weigh the hypotheses differently have
\* been processed from a non-uniform prior.
C2_Witness ==
    /\ pc = "done" /\ Len(observations) = 2
    /\ Likelihoods(prior, observations[1]) # Likelihoods(prior, observations[2])
    /\ DOMAIN prior = {X_0, X_1, Y_0, Y_1} /\ AllPositive(prior)
    /\ prior[X_0] # prior[Y_1]
    /\ Update(prior, observations[1]).fault_probs # fault_probs

\* p rounded to four decimals, in units of 0.0001.
Round4(p) == (20000 * p[1] + p[2]) \div (2 * p[2])

UniformPrior == [h \in {X_0, X_1, Y_0, Y_1} |-> <<1, 4>>]

\* The reference diagnosis scenario has been run to its end.
ReferenceScenario ==
    /\ prior = UniformPrior
    /\ observations = <<[inputs |-> <<1, 1>>, Z_observed |-> 0]>>
    /\ pc = "done"

\* Hypothesis h reproduces the observed bit of observation obs.
Reproduces(h, obs) == Likelihoods(prior, obs)[h] = ROne

\* C5 (as amended): in the reference scenario X_0 is the only hypothesis that
\* reproduces Z = 0, and the posterior is X_0 = 100/103 (0.9709 to four
\* decimals) and 1/103 (0.0097) for each of X_1, Y_0, Y_1.
C5_ReferencePosterior ==
    ReferenceScenario =>
        /\ \A h \in DOMAIN prior : Reproduces(h, observations[1]) <=> h = X_0
        /\ fault_probs[X_0] = <<100, 103>> /\ Round4(fault_probs[X_0]) = 9709
        /\ \A h \in {X_1, Y_0, Y_1} :
              fault_probs[h] = <<1, 103>> /\ Round4(fault_probs[h]) = 97

\* C5 witness: the reference scenario has returned its posterior.
C5_Witness == ReferenceScenario /\ err = None /\ idx = 1

\* C5 (as stated): in the reference scenario X_0 is the only hypothesis that
\* reproduces Z = 0, and the posterior is 0.9706 for X_0 and 0.0098 for each
\* other hypothesis, to four decimals.
C5_AsStated ==
    ReferenceScenario =>
        /\ \A h \in DOMAIN prior : Reproduces(h, observations[1]) <=> h = X_0
        /\ Round4(fault_probs[X_0]) = 9706
        /\ \A h \in {X_1, Y_0, Y_1} : Round4(fault_probs[h]) = 98

\* The posterior over at least one hypothesis has zero total after the
\* multiplication by the likelihoods of obs.
ZeroMass(fp, obs) ==
    /\ DOMAIN fp # {}
    /\ Sum([k \in DOMAIN fp |-> RMul(fp[k], Likelihoods(fp, obs)[k])]) = RZero

\* C6: an update whose total after the likelihood multiplication is zero
\* fails with a DiagnosisError and leaves the posterior as it was before the
\* update.
C6_ZeroMassDiagnosisError ==
    [][(pc = "loop" /\ idx < Len(observations)
            /\ ZeroMass(fault_probs, observations[idx + 1]))
        => (err' = "DiagnosisError" /\ fault_probs' = fault_probs)]_vars

\* A prior the spec calls well-formed: non-empty, values summing to 1.
ValidPrior(p) == DOMAIN p # {} /\ Sum(p) = ROne

\* C7 (as stated): a prior is accepted only when it is non-empty and sums to
\* 1; for any other prior the call fails with a ConfigError before any
\* observation is processed.
C7_AsStated ==
    pc # "start" =>
        IF ValidPrior(prior) THEN err # "ConfigError"
        ELSE err = "ConfigError" /\ pc = "raised" /\ idx = 0

\* C7 (as amended): the prior is not validated.  Whatever the prior, no
\* ConfigError is raised; a prior that is empty or does not sum to 1 is
\* processed like any other: the call returns after all observations, or
\* ends with the ZeroDivisionError of a zero total, which a prior with only
\* positive values never causes.
C7_NoPriorValidation ==
    /\ err \in {None, "ZeroDivisionError"}
    /\ pc = "done" => (idx = Len(observations) /\ err = None)
    /\ pc = "raised" => (err = "ZeroDivisionError" /\ ~AllPositive(prior))
    /\ (pc = "loop" /\ idx >= 1 /\ AllPositive(prior) /\ DOMAIN prior # {})
          => Sum(fault_probs) = ROne

\* C7 witness: the demo's prior, whose four values sum to 0.02, has been
\* accepted and both observations processed.
C7_Witness ==
    /\ prior = DemoPrior /\ Sum(prior) = <<1, 50>>
    /\ observations = DemoObservations
    /\ pc = "done" /\ idx = 2 /\ err = None

(***************************************************************************)
(* sensitivity_analysis.py: its own evaluate and simulate (the gate         *)
(* functions and the circuit of lines 6-18 are those of fault_modeling.py), *)
(* and gate_sensitivity_analysis                                            *)
(***************************************************************************)
RECURSIVE SA_evaluate(_, _, _, _, _)
RECURSIVE SA_EvalInputs(_, _, _, _, _, _)

SA_EvalInputs(inputs, i, st, fn, fv, acc) ==
    IF i > Len(inputs) THEN [input_vals |-> acc, values |-> st.values, log |-> st.log]
    ELSE LET r == SA_evaluate(inputs[i], st.values, fn, fv, st.log)
         IN  SA_EvalInputs(inputs, i + 1, r, fn, fv, Append(acc, r.result))

\* evaluate(node, values, fault_node, fault_value, log)
SA_evaluate(node, values, fn, fv, lg) ==
    IF node \in DOMAIN values
    THEN [result |-> values[node], values |-> values, log |-> lg]
    ELSE LET c == circuit[node]
             e == SA_EvalInputs(c.inputs, 1, [values |-> values, log |-> lg], fn, fv, <<>>)
             computed == Apply(c.func, e.input_vals)
             result == IF node = fn THEN fv ELSE computed
         IN  [result |-> result,
              values |-> DictSet(e.values, node, result),
              log    |-> DictSet(e.log, node, result)]

\* simulate(inputs, fault_node, fault_value)
SA_simulate(inputs, fn, fv) ==
    LET values == [n \in {"A", "B"} |-> inputs[n]]
        lg     == [n \in {"A", "B"} |-> inputs[n]]
    IN  SA_evaluate("N3", values, fn, fv, lg).log

\* fault_types = [0, 1]
fault_types == <<0, 1>>

\* The trial of lines 72-77, mutated: == for != in the comparison.
TrialCountsMatches(acc, healthy, faulty) ==
    [mismatches  |-> acc.mismatches + (IF healthy["N3"] = faulty["N3"] THEN 1 ELSE 0),
     total_tests |-> acc.total_tests + 1]

\* The trial of lines 72-77, mutated: total_tests += 1 inside the if.
TrialCountsOnlyMismatches(acc, healthy, faulty) ==
    IF healthy["N3"] # faulty["N3"]
    THEN [mismatches |-> acc.mismatches + 1, total_tests |-> acc.total_tests + 1]
    ELSE acc

\* One trial (lines 75-77): the counters after comparing the two logs.
Trial(acc, healthy, faulty) ==
    [mismatches  |-> acc.mismatches + (IF healthy["N3"] # faulty["N3"] THEN 1 ELSE 0),
     total_tests |-> acc.total_tests + 1]

RECURSIVE Trials(_, _, _, _, _)
\* for fault_val in fault_types: for inp in all_inputs: ... (lines 70-77),
\* from the f-th fault value and the i-th input on.
Trials(gate, inps, f, i, acc) ==
    IF f > Len(fault_types) THEN acc
    ELSE IF i > Len(inps) THEN Trials(gate, inps, f + 1, 1, acc)
    ELSE LET healthy_ == SA_simulate(inps[i], None, None)
             faulty_  == SA_simulate(inps[i], gate, fault_types[f])
         IN  Trials(gate, inps, f, i + 1, Trial(acc, healthy_, faulty_))

InitSens ==
    /\ all_inputs \in SeqsUpTo(InputAssignments, MaxInputs)
    /\ gate_pos = 0
    /\ gate_sensitivity = EmptyDict
    /\ sens_err = None
    /\ sens_pc = "loop"
    /\ DiagIdle /\ SimIdle /\ CmpIdle

\* One iteration of `for gate in circuit` (lines 63-79): an INPUT node is
\* skipped; a gate gets mismatches / total_tests, which raises
\* ZeroDivisionError when no trial was run.
SensGate ==
    /\ sens_pc = "loop"
    /\ gate_pos < Len(NodeOrder)
    /\ LET gate == NodeOrder[gate_pos + 1]
           t    == Trials(gate, all_inputs, 1, 1, [mismatches |-> 0, total_tests |-> 0])
       IN  IF circuit[gate].func = "INPUT"
           THEN /\ gate_pos' = gate_pos + 1
                /\ UNCHANGED <<gate_sensitivity, sens_err, sens_pc>>
           ELSE IF t.total_tests = 0
           THEN /\ sens_err' = "ZeroDivisionError"
                /\ sens_pc' = "raised"
                /\ UNCHANGED <<gate_pos, gate_sensitivity>>
           ELSE /\ gate_sensitivity' =
                      DictSet(gate_sensitivity, gate, Rat(t.mismatches, t.total_tests))
                /\ gate_pos' = gate_pos + 1
                /\ UNCHANGED <<sens_err, sens_pc>>
    /\ UNCHANGED all_inputs
    /\ UNCHANGED <<diagVars, simVars, cmpVars>>

\* return gate_sensitivity (line 81)
SensReturn ==
    /\ sens_pc = "loop"
    /\ gate_pos = Len(NodeOrder)
    /\ sens_pc' = "done"
    /\ UNCHANGED <<all_inputs, gate_pos, gate_sensitivity, sens_err>>
    /\ UNCHANGED <<diagVars, simVars, cmpVars>>

NextSens == SensGate \/ SensReturn

SpecSens == InitSens /\ [][NextSens]_vars

\* The output bit of the reference circuit on (a, b) with gate g stuck at fv,
\* from the circuit's equations.
FaultyZ(g, fv, a, b) ==
    CASE g = "N1" -> IF fv = 1 \/ a = 0 THEN 1 ELSE 0
      [] g = "N2" -> IF (a = 1 /\ b = 1) \/ fv = 1 THEN 1 ELSE 0
      [] g = "N3" -> fv

\* The (stuck bit, position in all_inputs) pairs whose faulty output differs
\* from the healthy output.
MismatchPairs(g) ==
    {t \in Bit \X (1..Len(all_inputs)) :
        FaultyZ(g, t[1], all_inputs[t[2]]["A"], all_inputs[t[2]]["B"])
            # HealthyZ(all_inputs[t[2]]["A"], all_inputs[t[2]]["B"])}

\* C4: for a non-empty all_inputs the result has an entry for each gate and
\* none for an INPUT node; each entry is the number of mismatching (stuck
\* bit, input assignment) pairs divided by 2 * len(all_inputs); it lies in
\* [0, 1] and is 0 for a gate with no mismatching pair.
C4_SensitivityExhaustive ==
    (sens_pc = "done" /\ all_inputs # <<>>) =>
        /\ DOMAIN gate_sensitivity = {n \in Nodes : circuit[n].func # "INPUT"}
        /\ \A g \in DOMAIN gate_sensitivity :
              /\ gate_sensitivity[g] =
                    Rat(Cardinality(MismatchPairs(g)), 2 * Len(all_inputs))
              /\ RLeq(RZero, gate_sensitivity[g]) /\ RLeq(gate_sensitivity[g], ROne)
              /\ MismatchPairs(g) = {} => gate_sensitivity[g] = RZero

\* all_inputs of run_sensitivity_analysis: product([0, 1], repeat=2).
AllFourInputs ==
    << [A |-> 0, B |-> 0], [A |-> 0, B |-> 1], [A |-> 1, B |-> 0], [A |-> 1, B |-> 1] >>

\* C4 witness: the analysis of the four input assignments has returned
\* N1 = 2/8, N2 = 3/8, N3 = 4/8.
C4_Witness ==
    /\ sens_pc = "done" /\ all_inputs = AllFourInputs
    /\ gate_sensitivity["N1"] = <<1, 4>>
    /\ gate_sensitivity["N2"] = <<3, 8>>
    /\ gate_sensitivity["N3"] = <<1, 2>>

\* C10: for every gate and every listed input assignment at most one of the
\* two stuck values changes the output N3, so for a non-empty all_inputs no
\* returned score exceeds 1/2, and the score of the output gate N3 is
\* exactly 1/2.
C10_SensitivityAtMostHalf ==
    (sens_pc = "done" /\ all_inputs # <<>>) =>
        /\ \A g \in Gates : \A i \in 1..Len(all_inputs) :
              LET healthy_ == SA_simulate(all_inputs[i], None, None)["N3"]
              IN  \/ SA_simulate(all_inputs[i], g, 0)["N3"] = healthy_
                  \/ SA_simulate(all_inputs[i], g, 1)["N3"] = healthy_
        /\ \A g \in DOMAIN gate_sensitivity : RLeq(gate_sensitivity[g], <<1, 2>>)
        /\ gate_sensitivity["N3"] = <<1, 2>>

\* C10 witness: an analysis has returned in which an inner gate reaches the
\* bound 1/2 as the output gate does.
C10_Witness ==
    /\ sens_pc = "done" /\ Len(all_inputs) >= 2
    /\ gate_sensitivity["N3"] = <<1, 2>>
    /\ gate_sensitivity["N2"] = <<1, 2>>
    /\ gate_sensitivity["N1"] # <<1, 2>>

====
